---------------------------- MODULE Spec2Model ----------------------------
(***************************************************************************)
(* Identifier parsing / rendering (BlockId, StateId, ValidatorId) and the  *)
(* validator status classifier (ValidatorStatus::from_validator) of        *)
(* common/eth2/src/types.rs.                                               *)
(*                                                                         *)
(* Two specifications share the module:                                    *)
(*   SpecClassifier  - a validator record is queried at epochs that never  *)
(*                     decrease; every query applies from_validator.       *)
(*   SpecIdentifier  - a request token is parsed as one of the three       *)
(*                     identifier families, rendered, and re-issued.       *)
(*                                                                         *)
(* Widths are scaled: U64_MAX stands for 2^64 - 1, HASH_HEX_LEN for the 64 *)
(* hex digits of a Hash256, PUBKEY_HEX_LEN for the 96 hex digits of a      *)
(* PublicKeyBytes.  Every u64 of the scaled width is enumerated.           *)
(***************************************************************************)
EXTENDS Integers, Sequences, FiniteSets

VARIABLES
    record,                 \* validator_opt handed to the classifier: <<>> = None, <<v>> = Some(v)
    current_epoch,          \* the `epoch` argument of the latest query
    chain_finalized_epoch,  \* the `finalized_epoch` argument of the latest query
    far_future,             \* the `far_future_epoch` argument (fixed per record)
    status,                 \* the ValidatorStatus the latest query returned
    reported,               \* the ValidatorStatus the query before it returned
    input,                  \* the request token being parsed (a sequence of characters)
    family,                 \* which from_str parsed it: "none", "BlockId", "StateId", "ValidatorId"
    parsed,                 \* the Result of from_str
    rendered,               \* the Display text of the parsed identifier, <<>> before rendering
    origin                  \* where the token came from: "request" or "rendered" (re-issued)

classifierVars == <<record, current_epoch, chain_finalized_epoch, far_future, status, reported>>
identifierVars == <<input, family, parsed, rendered, origin>>
vars == <<record, current_epoch, chain_finalized_epoch, far_future, status, reported,
          input, family, parsed, rendered, origin>>

(***************************************************************************)
(* Bounds and program constants                                            *)
(***************************************************************************)
\* The largest u64 of the scaled width (stands for 2^64 - 1).
U64_MAX == 5

\* types.rs:13
EPOCHS_BEFORE_FINALITY == 3

U64 == 0..U64_MAX

(***************************************************************************)
(* Epoch arithmetic and the Validator record (types crate)                 *)
(***************************************************************************)
\* Epoch + u64 of the types crate: the sum, capped at the largest u64.
EpochAdd(e, n) == IF e + n > U64_MAX THEN U64_MAX ELSE e + n

Validator == [activation_eligibility_epoch : U64,
              activation_epoch : U64,
              exit_epoch : U64,
              withdrawable_epoch : U64]

is_active_at(validator, epoch) ==
    validator.activation_epoch <= epoch /\ epoch < validator.exit_epoch

is_exited_at(validator, epoch) == validator.exit_epoch <= epoch

is_withdrawable_at(validator, epoch) == validator.withdrawable_epoch <= epoch

(***************************************************************************)
(* ValidatorStatus                                                         *)
(***************************************************************************)
Unknown == [tag |-> "Unknown"]
WaitingForEligibility == [tag |-> "WaitingForEligibility"]
WaitingForFinality(e) == [tag |-> "WaitingForFinality", epoch |-> e]
WaitingInQueue == [tag |-> "WaitingInQueue"]
StandbyForActive(e) == [tag |-> "StandbyForActive", epoch |-> e]
Active == [tag |-> "Active"]
ActiveAwaitingExit(e) == [tag |-> "ActiveAwaitingExit", epoch |-> e]
Exited(e) == [tag |-> "Exited", epoch |-> e]
Withdrawable == [tag |-> "Withdrawable"]

\* No query yet.
NotQueried == [tag |-> "NotQueried"]

ValidatorStatus ==
    {Unknown, WaitingForEligibility, WaitingInQueue, Active, Withdrawable}
    \cup {WaitingForFinality(e) : e \in U64}
    \cup {StandbyForActive(e) : e \in U64}
    \cup {ActiveAwaitingExit(e) : e \in U64}
    \cup {Exited(e) : e \in U64}

\* from_validator with the exited check ahead of the withdrawable check.
from_validator_exited_first(validator_opt, epoch, finalized_epoch, far_future_epoch) ==
    IF validator_opt # <<>> THEN
        LET validator == validator_opt[1] IN
        IF is_exited_at(validator, epoch) THEN
            Exited(validator.withdrawable_epoch)
        ELSE IF is_withdrawable_at(validator, epoch) THEN
            Withdrawable
        ELSE IF is_active_at(validator, epoch) THEN
            IF validator.exit_epoch < far_future_epoch THEN
                ActiveAwaitingExit(validator.exit_epoch)
            ELSE
                Active
        ELSE
            IF validator.activation_epoch < far_future_epoch THEN
                StandbyForActive(validator.activation_epoch)
            ELSE IF validator.activation_eligibility_epoch < far_future_epoch THEN
                IF finalized_epoch < validator.activation_eligibility_epoch THEN
                    WaitingForFinality(
                        EpochAdd(validator.activation_eligibility_epoch,
                                 EPOCHS_BEFORE_FINALITY))
                ELSE
                    WaitingInQueue
            ELSE
                WaitingForEligibility
    ELSE
        Unknown

\* from_validator with the eligibility check ahead of the scheduled-activation check.
from_validator_eligibility_first(validator_opt, epoch, finalized_epoch, far_future_epoch) ==
    IF validator_opt # <<>> THEN
        LET validator == validator_opt[1] IN
        IF is_withdrawable_at(validator, epoch) THEN
            Withdrawable
        ELSE IF is_exited_at(validator, epoch) THEN
            Exited(validator.withdrawable_epoch)
        ELSE IF is_active_at(validator, epoch) THEN
            IF validator.exit_epoch < far_future_epoch THEN
                ActiveAwaitingExit(validator.exit_epoch)
            ELSE
                Active
        ELSE
            IF validator.activation_eligibility_epoch < far_future_epoch THEN
                IF finalized_epoch < validator.activation_eligibility_epoch THEN
                    WaitingForFinality(
                        EpochAdd(validator.activation_eligibility_epoch,
                                 EPOCHS_BEFORE_FINALITY))
                ELSE
                    WaitingInQueue
            ELSE IF validator.activation_epoch < far_future_epoch THEN
                StandbyForActive(validator.activation_epoch)
            ELSE
                WaitingForEligibility
    ELSE
        Unknown

\* from_validator with Exited carrying exit_epoch instead of withdrawable_epoch.
from_validator_exit_payload(validator_opt, epoch, finalized_epoch, far_future_epoch) ==
    IF validator_opt # <<>> THEN
        LET validator == validator_opt[1] IN
        IF is_withdrawable_at(validator, epoch) THEN
            Withdrawable
        ELSE IF is_exited_at(validator, epoch) THEN
            Exited(validator.exit_epoch)
        ELSE IF is_active_at(validator, epoch) THEN
            IF validator.exit_epoch < far_future_epoch THEN
                ActiveAwaitingExit(validator.exit_epoch)
            ELSE
                Active
        ELSE
            IF validator.activation_epoch < far_future_epoch THEN
                StandbyForActive(validator.activation_epoch)
            ELSE IF validator.activation_eligibility_epoch < far_future_epoch THEN
                IF finalized_epoch < validator.activation_eligibility_epoch THEN
                    WaitingForFinality(
                        EpochAdd(validator.activation_eligibility_epoch,
                                 EPOCHS_BEFORE_FINALITY))
                ELSE
                    WaitingInQueue
            ELSE
                WaitingForEligibility
    ELSE
        Unknown

\* from_validator classifying an absent record like a record with every epoch unset.
from_validator_absent_as_unset(validator_opt, epoch, finalized_epoch, far_future_epoch) ==
    IF validator_opt # <<>> THEN
        LET validator == validator_opt[1] IN
        IF is_withdrawable_at(validator, epoch) THEN
            Withdrawable
        ELSE IF is_exited_at(validator, epoch) THEN
            Exited(validator.withdrawable_epoch)
        ELSE IF is_active_at(validator, epoch) THEN
            IF validator.exit_epoch < far_future_epoch THEN
                ActiveAwaitingExit(validator.exit_epoch)
            ELSE
                Active
        ELSE
            IF validator.activation_epoch < far_future_epoch THEN
                StandbyForActive(validator.activation_epoch)
            ELSE IF validator.activation_eligibility_epoch < far_future_epoch THEN
                IF finalized_epoch < validator.activation_eligibility_epoch THEN
                    WaitingForFinality(
                        EpochAdd(validator.activation_eligibility_epoch,
                                 EPOCHS_BEFORE_FINALITY))
                ELSE
                    WaitingInQueue
            ELSE
                WaitingForEligibility
    ELSE
        WaitingForEligibility

\* from_validator adding the delay to finalized_epoch instead of the eligibility epoch.
from_validator_delay_from_finalized(validator_opt, epoch, finalized_epoch, far_future_epoch) ==
    IF validator_opt # <<>> THEN
        LET validator == validator_opt[1] IN
        IF is_withdrawable_at(validator, epoch) THEN
            Withdrawable
        ELSE IF is_exited_at(validator, epoch) THEN
            Exited(validator.withdrawable_epoch)
        ELSE IF is_active_at(validator, epoch) THEN
            IF validator.exit_epoch < far_future_epoch THEN
                ActiveAwaitingExit(validator.exit_epoch)
            ELSE
                Active
        ELSE
            IF validator.activation_epoch < far_future_epoch THEN
                StandbyForActive(validator.activation_epoch)
            ELSE IF validator.activation_eligibility_epoch < far_future_epoch THEN
                IF finalized_epoch < validator.activation_eligibility_epoch THEN
                    WaitingForFinality(EpochAdd(finalized_epoch, EPOCHS_BEFORE_FINALITY))
                ELSE
                    WaitingInQueue
            ELSE
                WaitingForEligibility
    ELSE
        Unknown

\* from_validator with the finality comparison turned around.
from_validator_finality_flipped(validator_opt, epoch, finalized_epoch, far_future_epoch) ==
    IF validator_opt # <<>> THEN
        LET validator == validator_opt[1] IN
        IF is_withdrawable_at(validator, epoch) THEN
            Withdrawable
        ELSE IF is_exited_at(validator, epoch) THEN
            Exited(validator.withdrawable_epoch)
        ELSE IF is_active_at(validator, epoch) THEN
            IF validator.exit_epoch < far_future_epoch THEN
                ActiveAwaitingExit(validator.exit_epoch)
            ELSE
                Active
        ELSE
            IF validator.activation_epoch < far_future_epoch THEN
                StandbyForActive(validator.activation_epoch)
            ELSE IF validator.activation_eligibility_epoch < far_future_epoch THEN
                IF validator.activation_eligibility_epoch < finalized_epoch THEN
                    WaitingForFinality(
                        EpochAdd(validator.activation_eligibility_epoch,
                                 EPOCHS_BEFORE_FINALITY))
                ELSE
                    WaitingInQueue
            ELSE
                WaitingForEligibility
    ELSE
        Unknown

from_validator(validator_opt, epoch, finalized_epoch, far_future_epoch) ==
    IF validator_opt # <<>> THEN
        LET validator == validator_opt[1] IN
        IF is_withdrawable_at(validator, epoch) THEN
            Withdrawable
        ELSE IF is_exited_at(validator, epoch) THEN
            Exited(validator.withdrawable_epoch)
        ELSE IF is_active_at(validator, epoch) THEN
            IF validator.exit_epoch < far_future_epoch THEN
                ActiveAwaitingExit(validator.exit_epoch)
            ELSE
                Active
        ELSE
            IF validator.activation_epoch < far_future_epoch THEN
                StandbyForActive(validator.activation_epoch)
            ELSE IF validator.activation_eligibility_epoch < far_future_epoch THEN
                IF finalized_epoch < validator.activation_eligibility_epoch THEN
                    WaitingForFinality(
                        EpochAdd(validator.activation_eligibility_epoch,
                                 EPOCHS_BEFORE_FINALITY))
                ELSE
                    WaitingInQueue
            ELSE
                WaitingForEligibility
    ELSE
        Unknown

(***************************************************************************)
(* Text: a string is a sequence of one-character strings                   *)
(***************************************************************************)
\* The longest request token enumerated character by character.
MaxLen == 4

\* The hex digits of a Hash256 (stands for 64).
HASH_HEX_LEN == 2

\* The hex digits of a PublicKeyBytes (stands for 96).
PUBKEY_HEX_LEN == 2

DecDigits == <<"0", "1", "2", "3", "4", "5", "6", "7", "8", "9">>
HexLower == DecDigits \o <<"a", "b", "c", "d", "e", "f">>
HexUpper == DecDigits \o <<"A", "B", "C", "D", "E", "F">>

IsDecDigit(c) == \E i \in 1..10 : DecDigits[i] = c
DecDigitVal(c) == (CHOOSE i \in 1..10 : DecDigits[i] = c) - 1
IsHexDigit(c) == \E i \in 1..16 : HexLower[i] = c \/ HexUpper[i] = c
HexDigitVal(c) == (CHOOSE i \in 1..16 : HexLower[i] = c \/ HexUpper[i] = c) - 1

head == <<"h", "e", "a", "d">>
genesis == <<"g", "e", "n", "e", "s", "i", "s">>
finalized == <<"f", "i", "n", "a", "l", "i", "z", "e", "d">>
justified == <<"j", "u", "s", "t", "i", "f", "i", "e", "d">>

\* str::starts_with("0x")
StartsWith0x(s) == Len(s) >= 2 /\ s[1] = "0" /\ s[2] = "x"

\* &s[2..]
Skip2(s) == SubSeq(s, 3, Len(s))

Ok(v) == [ok |-> TRUE, value |-> v]
Err(m) == [ok |-> FALSE, message |-> m]

\* The pieces format! puts together: the `{}` arguments and the literal text.
Text(s) == [seg |-> "text", chars |-> s]
Lit(l) == [seg |-> "lit", lit |-> l]
ErrSeg(e) == [seg |-> "error", kind |-> e]

(***************************************************************************)
(* The parsers from_str delegates to                                       *)
(***************************************************************************)
\* The digit loop of u64::from_str: to_digit, checked_mul(10), checked_add.
RECURSIVE ParseDigits(_, _, _)
ParseDigits(digits, i, acc) ==
    IF i > Len(digits) THEN Ok(acc)
    ELSE IF ~IsDecDigit(digits[i]) THEN Err("InvalidDigit")
    ELSE IF acc * 10 > U64_MAX THEN Err("PosOverflow")
    ELSE IF acc * 10 + DecDigitVal(digits[i]) > U64_MAX THEN Err("PosOverflow")
    ELSE ParseDigits(digits, i + 1, acc * 10 + DecDigitVal(digits[i]))

\* u64::from_str: an optional leading "+", then one or more decimal digits.
u64_from_str(s) ==
    IF Len(s) = 0 THEN Err("Empty")
    ELSE IF Len(s) = 1 /\ s[1] \in {"+", "-"} THEN Err("InvalidDigit")
    ELSE IF s[1] = "+" THEN ParseDigits(Tail(s), 1, 0)
    ELSE ParseDigits(s, 1, 0)

\* Hash256::from_str: exactly HASH_HEX_LEN hex digits of either case.
Hash256_from_str(t) ==
    IF \E i \in 1..Len(t) : ~IsHexDigit(t[i]) THEN Err("InvalidHexCharacter")
    ELSE IF Len(t) # HASH_HEX_LEN THEN Err("InvalidHexLength")
    ELSE Ok([i \in 1..Len(t) |-> HexDigitVal(t[i])])

\* PublicKeyBytes::from_str: "0x", then exactly PUBKEY_HEX_LEN hex digits.
PublicKeyBytes_from_str(s) ==
    IF ~StartsWith0x(s) THEN Err("MustStartWith0x")
    ELSE IF \E i \in 3..Len(s) : ~IsHexDigit(s[i]) THEN Err("InvalidHexCharacter")
    ELSE IF Len(s) - 2 # PUBKEY_HEX_LEN THEN Err("InvalidByteLength")
    ELSE Ok([i \in 1..(Len(s) - 2) |-> HexDigitVal(s[i + 2])])

\* Display of a u64 (Slot, validator index): its decimal digits.
RECURSIVE Decimal(_)
Decimal(n) ==
    IF n < 10 THEN <<DecDigits[n + 1]>>
    ELSE Decimal(n \div 10) \o <<DecDigits[(n % 10) + 1]>>

\* Debug of a Hash256: "0x" and every digit in lower case.
Hash256_debug(h) == <<"0", "x">> \o [i \in 1..Len(h) |-> HexLower[h[i] + 1]]

\* Debug of a PublicKeyBytes: "0x" and every digit in lower case.
PublicKeyBytes_debug(pk) == <<"0", "x">> \o [i \in 1..Len(pk) |-> HexLower[pk[i] + 1]]

(***************************************************************************)
(* BlockId, StateId, ValidatorId                                           *)
(***************************************************************************)
Symbolic == {"Head", "Genesis", "Finalized", "Justified"}

BlockId(v) == [type |-> "BlockId", variant |-> v]
BlockId_Slot(n) == [type |-> "BlockId", variant |-> "Slot", slot |-> n]
BlockId_Root(h) == [type |-> "BlockId", variant |-> "Root", root |-> h]

StateId(v) == [type |-> "StateId", variant |-> v]
StateId_Slot(n) == [type |-> "StateId", variant |-> "Slot", slot |-> n]
StateId_Root(h) == [type |-> "StateId", variant |-> "Root", root |-> h]

ValidatorId_PublicKey(pk) == [type |-> "ValidatorId", variant |-> "PublicKey", pubkey |-> pk]
ValidatorId_Index(n) == [type |-> "ValidatorId", variant |-> "Index", index |-> n]

\* BlockId::from_str falling back to the digits after "0x" when they are no hash.
BlockId_from_str_numeric_fallback(s) ==
    IF s = head THEN Ok(BlockId("Head"))
    ELSE IF s = genesis THEN Ok(BlockId("Genesis"))
    ELSE IF s = finalized THEN Ok(BlockId("Finalized"))
    ELSE IF s = justified THEN Ok(BlockId("Justified"))
    ELSE IF StartsWith0x(s) /\ Hash256_from_str(Skip2(s)).ok THEN
        Ok(BlockId_Root(Hash256_from_str(Skip2(s)).value))
    ELSE
        LET r == u64_from_str(IF StartsWith0x(s) THEN Skip2(s) ELSE s) IN
        IF r.ok THEN Ok(BlockId_Slot(r.value))
        ELSE Err(<<Text(s), Lit(" cannot be parsed as a parameter")>>)

BlockId_from_str(s) ==
    IF s = head THEN Ok(BlockId("Head"))
    ELSE IF s = genesis THEN Ok(BlockId("Genesis"))
    ELSE IF s = finalized THEN Ok(BlockId("Finalized"))
    ELSE IF s = justified THEN Ok(BlockId("Justified"))
    ELSE IF StartsWith0x(s) THEN
        LET r == Hash256_from_str(Skip2(s)) IN
        IF r.ok THEN Ok(BlockId_Root(r.value))
        ELSE Err(<<ErrSeg(r.message), Lit(" cannot be parsed as a root")>>)
    ELSE
        LET r == u64_from_str(s) IN
        IF r.ok THEN Ok(BlockId_Slot(r.value))
        ELSE Err(<<Text(s), Lit(" cannot be parsed as a parameter")>>)

BlockId_fmt(id) ==
    CASE id.variant = "Head" -> head
      [] id.variant = "Genesis" -> genesis
      [] id.variant = "Finalized" -> finalized
      [] id.variant = "Justified" -> justified
      [] id.variant = "Slot" -> Decimal(id.slot)
      [] id.variant = "Root" -> Hash256_debug(id.root)

StateId_from_str(s) ==
    IF s = head THEN Ok(StateId("Head"))
    ELSE IF s = genesis THEN Ok(StateId("Genesis"))
    ELSE IF s = finalized THEN Ok(StateId("Finalized"))
    ELSE IF s = justified THEN Ok(StateId("Justified"))
    ELSE IF StartsWith0x(s) THEN
        LET r == Hash256_from_str(Skip2(s)) IN
        IF r.ok THEN Ok(StateId_Root(r.value))
        ELSE Err(<<ErrSeg(r.message), Lit(" cannot be parsed as a root")>>)
    ELSE
        LET r == u64_from_str(s) IN
        IF r.ok THEN Ok(StateId_Slot(r.value))
        ELSE Err(<<Text(s), Lit(" cannot be parsed as a slot")>>)

\* StateId's Display with the Finalized arm writing the Justified tag.
StateId_fmt_copied_tag(id) ==
    CASE id.variant = "Head" -> head
      [] id.variant = "Genesis" -> genesis
      [] id.variant = "Finalized" -> justified
      [] id.variant = "Justified" -> justified
      [] id.variant = "Slot" -> Decimal(id.slot)
      [] id.variant = "Root" -> Hash256_debug(id.root)

StateId_fmt(id) ==
    CASE id.variant = "Head" -> head
      [] id.variant = "Genesis" -> genesis
      [] id.variant = "Finalized" -> finalized
      [] id.variant = "Justified" -> justified
      [] id.variant = "Slot" -> Decimal(id.slot)
      [] id.variant = "Root" -> Hash256_debug(id.root)

ValidatorId_from_str(s) ==
    IF StartsWith0x(s) THEN
        LET r == PublicKeyBytes_from_str(s) IN
        IF r.ok THEN Ok(ValidatorId_PublicKey(r.value))
        ELSE Err(<<Text(s), Lit(" cannot be parsed as a public key: "), ErrSeg(r.message)>>)
    ELSE
        LET r == u64_from_str(s) IN
        IF r.ok THEN Ok(ValidatorId_Index(r.value))
        ELSE Err(<<Text(s), Lit(" cannot be parsed as a slot: "), ErrSeg(r.message)>>)

ValidatorId_fmt(id) ==
    CASE id.variant = "PublicKey" -> PublicKeyBytes_debug(id.pubkey)
      [] id.variant = "Index" -> Decimal(id.index)

(***************************************************************************)
(* A request token parsed, rendered and re-issued                          *)
(***************************************************************************)
Alphabet == {"0", "1", "9", "x", "a", "z", "+", "-"}

RECURSIVE Strings(_)
Strings(n) ==
    IF n = 0 THEN {<<>>}
    ELSE LET shorter == Strings(n - 1) IN
         shorter \cup {Append(s, c) : s \in {t \in shorter : Len(t) = n - 1}, c \in Alphabet}

\* Tokens beyond the enumerated ones: the tags, tags in another case or with
\* a stray character, and hex digits in upper case.
LongTokens ==
    {head, genesis, finalized, justified,
     <<"H", "e", "a", "d">>, <<"H", "E", "A", "D">>, <<"h", "e", "a", "d", " ">>,
     <<"G", "e", "n", "e", "s", "i", "s">>,
     <<"F", "i", "n", "a", "l", "i", "z", "e", "d">>,
     <<"j", "u", "s", "t", "i", "f", "i", "e", "D">>,
     <<"0", "x", "h", "e", "a", "d">>,
     <<"0", "x", "A", "a">>, <<"0", "X", "a", "a">>, <<" ", "1">>}

Tokens == Strings(MaxLen) \cup LongTokens

NotParsed == Err(<<>>)

IdleClassifier ==
    /\ record = <<>>
    /\ current_epoch = 0
    /\ chain_finalized_epoch = 0
    /\ far_future = U64_MAX
    /\ status = NotQueried
    /\ reported = NotQueried

InitIdentifier ==
    /\ input \in Tokens
    /\ family = "none"
    /\ parsed = NotParsed
    /\ rendered = <<>>
    /\ origin = "request"
    /\ IdleClassifier

ParseBlockId ==
    /\ family = "none"
    /\ family' = "BlockId"
    /\ parsed' = BlockId_from_str(input)
    /\ UNCHANGED <<input, rendered, origin>>
    /\ UNCHANGED classifierVars

ParseStateId ==
    /\ family = "none"
    /\ family' = "StateId"
    /\ parsed' = StateId_from_str(input)
    /\ UNCHANGED <<input, rendered, origin>>
    /\ UNCHANGED classifierVars

ParseValidatorId ==
    /\ family = "none"
    /\ family' = "ValidatorId"
    /\ parsed' = ValidatorId_from_str(input)
    /\ UNCHANGED <<input, rendered, origin>>
    /\ UNCHANGED classifierVars

fmt(id) ==
    CASE id.type = "BlockId" -> BlockId_fmt(id)
      [] id.type = "StateId" -> StateId_fmt(id)
      [] id.type = "ValidatorId" -> ValidatorId_fmt(id)

from_str(fam, s) ==
    CASE fam = "BlockId" -> BlockId_from_str(s)
      [] fam = "StateId" -> StateId_from_str(s)
      [] fam = "ValidatorId" -> ValidatorId_from_str(s)

\* id.to_string(): only a successfully parsed identifier can be rendered.
Render ==
    /\ family # "none"
    /\ parsed.ok
    /\ rendered = <<>>
    /\ rendered' = fmt(parsed.value)
    /\ UNCHANGED <<input, family, parsed, origin>>
    /\ UNCHANGED classifierVars

\* The rendered text re-issued as the token of a new request of the same family.
Reparse ==
    /\ rendered # <<>>
    /\ input' = rendered
    /\ origin' = "rendered"
    /\ parsed' = from_str(family, rendered)
    /\ rendered' = <<>>
    /\ UNCHANGED family
    /\ UNCHANGED classifierVars

NextIdentifier ==
    \/ ParseBlockId
    \/ ParseStateId
    \/ ParseValidatorId
    \/ Render
    \/ Reparse

SpecIdentifier == InitIdentifier /\ [][NextIdentifier]_vars

(***************************************************************************)
(* The classifier queried over time                                        *)
(***************************************************************************)
IdleIdentifier ==
    /\ input = <<>>
    /\ family = "none"
    /\ origin = "request"
    /\ parsed = NotParsed
    /\ rendered = <<>>

\* A record (or none) and a sentinel, the chain at its first epoch, no query yet.
InitClassifier ==
    /\ record \in {<<>>} \cup {<<v>> : v \in Validator}
    /\ far_future \in U64
    /\ current_epoch = 0
    /\ chain_finalized_epoch = 0
    /\ status = NotQueried
    /\ reported = NotQueried
    /\ IdleIdentifier

\* A query of the record: the chain has moved on (or not) since the query
\* before, the current and the finalized epoch never decrease.
Query ==
    /\ \E e \in current_epoch..U64_MAX, f \in chain_finalized_epoch..U64_MAX :
          /\ current_epoch' = e
          /\ chain_finalized_epoch' = f
          /\ status' = from_validator(record, e, f, far_future)
    /\ reported' = status
    /\ UNCHANGED <<record, far_future>>
    /\ UNCHANGED identifierVars

NextClassifier == Query

SpecClassifier == InitClassifier /\ [][NextClassifier]_vars

(***************************************************************************)
(* The classifier's claims, checked under SpecClassifier                   *)
(***************************************************************************)
Queried == status # NotQueried
Present == Queried /\ record # <<>>
Absent == Queried /\ record = <<>>
rec == record[1]

WithdrawableNow == rec.withdrawable_epoch <= current_epoch
ExitedNow == rec.exit_epoch <= current_epoch
ActiveNow == rec.activation_epoch <= current_epoch /\ current_epoch < rec.exit_epoch

\* The reference decision table: one row per outcome, each row guarded by
\* its own condition and by the failure of every earlier row.
ReferenceTable ==
    /\ WithdrawableNow => status = Withdrawable
    /\ (~WithdrawableNow /\ ExitedNow) => status = Exited(rec.withdrawable_epoch)
    /\ (~WithdrawableNow /\ ~ExitedNow /\ ActiveNow /\ rec.exit_epoch < far_future)
          => status = ActiveAwaitingExit(rec.exit_epoch)
    /\ (~WithdrawableNow /\ ~ExitedNow /\ ActiveNow /\ ~(rec.exit_epoch < far_future))
          => status = Active
    /\ (~WithdrawableNow /\ ~ExitedNow /\ ~ActiveNow /\ rec.activation_epoch < far_future)
          => status = StandbyForActive(rec.activation_epoch)
    /\ (~WithdrawableNow /\ ~ExitedNow /\ ~ActiveNow /\ ~(rec.activation_epoch < far_future)
          /\ rec.activation_eligibility_epoch < far_future
          /\ chain_finalized_epoch < rec.activation_eligibility_epoch)
          => /\ status.tag = "WaitingForFinality"
             /\ status.epoch = IF rec.activation_eligibility_epoch + 3 <= U64_MAX
                               THEN rec.activation_eligibility_epoch + 3
                               ELSE U64_MAX
    /\ (~WithdrawableNow /\ ~ExitedNow /\ ~ActiveNow /\ ~(rec.activation_epoch < far_future)
          /\ rec.activation_eligibility_epoch < far_future
          /\ ~(chain_finalized_epoch < rec.activation_eligibility_epoch))
          => status = WaitingInQueue
    /\ (~WithdrawableNow /\ ~ExitedNow /\ ~ActiveNow /\ ~(rec.activation_epoch < far_future)
          /\ ~(rec.activation_eligibility_epoch < far_future))
          => status = WaitingForEligibility

\* C1: for every present record and every epoch triple the status returned
\* is the one of the first check that holds in the fixed order withdrawable,
\* exited, active (awaiting exit or not), standby, waiting for finality / in
\* queue, waiting for eligibility; the epoch carried by WaitingForFinality
\* is the Epoch sum activation_eligibility_epoch + 3.
C1_DecisionTable == Present => ReferenceTable

\* A record for which several rows' own conditions hold at once: withdrawable,
\* exited and with a scheduled activation, all at the current epoch.
C1_Witness ==
    /\ Present
    /\ WithdrawableNow /\ ExitedNow
    /\ rec.activation_epoch < far_future
    /\ rec.activation_eligibility_epoch < far_future
    /\ status = Withdrawable

\* C2: a present record with withdrawable_epoch <= current_epoch is
\* Withdrawable whatever its other fields, the finalized epoch and the
\* sentinel are, also when it is exited or active at that epoch.
C2_WithdrawableFirst == (Present /\ WithdrawableNow) => status = Withdrawable

\* Withdrawable reported for a record that is also exited at that epoch.
C2_Witness ==
    /\ Present /\ WithdrawableNow /\ ExitedNow
    /\ rec.activation_epoch <= current_epoch
    /\ status = Withdrawable

\* Exited at the current epoch and past its activation epoch: the record
\* would be active but for its exit.
ExitedWouldBeActive == Present /\ ExitedNow /\ rec.activation_epoch <= current_epoch

\* C3 as stated: such a record is always classified Exited(withdrawable_epoch).
C3_Original == ExitedWouldBeActive => status = Exited(rec.withdrawable_epoch)

\* C3 amended: such a record is never Active nor ActiveAwaitingExit; it is
\* Exited(withdrawable_epoch) unless it is also withdrawable at the current
\* epoch, in which case it is Withdrawable.
C3_ExitedBeforeActive ==
    ExitedWouldBeActive =>
        /\ status.tag \notin {"Active", "ActiveAwaitingExit"}
        /\ ~WithdrawableNow => status = Exited(rec.withdrawable_epoch)
        /\ WithdrawableNow => status = Withdrawable

\* Exited reported for a record past its activation epoch, with a
\* withdrawable epoch other than its exit epoch.
C3_Witness ==
    /\ ExitedWouldBeActive /\ ~WithdrawableNow
    /\ rec.withdrawable_epoch # rec.exit_epoch
    /\ status = Exited(rec.withdrawable_epoch)

\* C4: an absent record is classified Unknown for every epoch triple, and
\* every query, of an absent or a present record, returns a status.
C4_AbsentIsUnknown ==
    /\ Queried => status \in ValidatorStatus
    /\ Absent => status = Unknown

\* Unknown reported for an absent record at a non-trivial epoch triple.
C4_Witness ==
    /\ Absent
    /\ current_epoch > 0 /\ chain_finalized_epoch > 0 /\ far_future < U64_MAX
    /\ status = Unknown

\* Not withdrawable, exited or active, no activation scheduled, eligible at
\* an epoch the chain has not finalized yet.
AwaitingFinality ==
    /\ Present
    /\ ~WithdrawableNow /\ ~ExitedNow /\ ~ActiveNow
    /\ ~(rec.activation_epoch < far_future)
    /\ rec.activation_eligibility_epoch < far_future
    /\ chain_finalized_epoch < rec.activation_eligibility_epoch

\* C5 as stated: WaitingForFinality carries exactly the integer e + 3 for
\* every eligibility epoch e of the u64 range.
C5_Original ==
    AwaitingFinality =>
        status = WaitingForFinality(rec.activation_eligibility_epoch + EPOCHS_BEFORE_FINALITY)

\* C5 amended: WaitingForFinality carries e + 3 whenever e + 3 fits in a
\* u64, and the largest u64 otherwise.
C5_WaitingForFinalityEpoch ==
    AwaitingFinality =>
        /\ status.tag = "WaitingForFinality"
        /\ rec.activation_eligibility_epoch + 3 <= U64_MAX
              => status.epoch = rec.activation_eligibility_epoch + 3
        /\ rec.activation_eligibility_epoch + 3 > U64_MAX
              => status.epoch = U64_MAX

\* finalized_epoch = e - 1 with e + 3 still a u64, a positive finalized epoch.
C5_Witness ==
    /\ AwaitingFinality
    /\ chain_finalized_epoch > 0
    /\ chain_finalized_epoch = rec.activation_eligibility_epoch - 1
    /\ rec.activation_eligibility_epoch + 3 <= U64_MAX
    /\ status = WaitingForFinality(rec.activation_eligibility_epoch + 3)

Rank(st) ==
    CASE st.tag = "WaitingForEligibility" -> 1
      [] st.tag = "WaitingForFinality" -> 2
      [] st.tag = "WaitingInQueue" -> 3
      [] st.tag = "StandbyForActive" -> 4
      [] st.tag = "Active" -> 5
      [] st.tag = "ActiveAwaitingExit" -> 6
      [] st.tag = "Exited" -> 7
      [] st.tag = "Withdrawable" -> 8

\* C10: for a present record and a fixed sentinel, along queries whose
\* current and finalized epochs never decrease the status never moves
\* backwards in the order WaitingForEligibility < WaitingForFinality <
\* WaitingInQueue < StandbyForActive < Active < ActiveAwaitingExit < Exited <
\* Withdrawable; Withdrawable stays Withdrawable, and Exited is followed only
\* by Exited or Withdrawable.
C10_Monotone ==
    [][Present =>
          /\ Rank(status') >= Rank(status)
          /\ status = Withdrawable => status' = Withdrawable
          /\ status.tag = "Exited" => status'.tag \in {"Exited", "Withdrawable"}]_vars

\* A later query that moved the status forward: waiting for finality
\* before, exited now.
C10_Witness ==
    /\ Present
    /\ reported.tag = "WaitingForFinality"
    /\ status.tag = "Exited"


(***************************************************************************)
(* The identifiers' claims, checked under SpecIdentifier                   *)
(***************************************************************************)
Parsed == family # "none"

HasSeg(m, seg) == \E i \in 1..Len(m) : m[i] = seg
HasError(m) == \E i \in 1..Len(m) : m[i].seg = "error"

IsDigitString(s) == Len(s) > 0 /\ \A i \in 1..Len(s) : IsDecDigit(s[i])

\* The number a digit string denotes.
RECURSIVE DecValue(_)
DecValue(s) ==
    IF Len(s) = 0 THEN 0
    ELSE 10 * DecValue(SubSeq(s, 1, Len(s) - 1)) + DecDigitVal(s[Len(s)])

DenotesU64(s) == IsDigitString(s) /\ DecValue(s) <= U64_MAX

IsTag(s) == s \in {head, genesis, finalized, justified}

TagText(variant) ==
    CASE variant = "Head" -> head
      [] variant = "Genesis" -> genesis
      [] variant = "Finalized" -> finalized
      [] variant = "Justified" -> justified

\* C6: a token that begins with "0x" is handled by the hash / public-key
\* branch alone: the result is the Root / PublicKey variant, or the error of
\* that branch, never the Slot / Index variant, for each of the three families.
C6_PrefixNeverNumeric ==
    (Parsed /\ StartsWith0x(input)) =>
        IF parsed.ok
        THEN /\ parsed.value.variant \notin {"Slot", "Index"}
             /\ parsed.value.variant =
                   (IF family = "ValidatorId" THEN "PublicKey" ELSE "Root")
        ELSE IF family = "ValidatorId"
             THEN HasSeg(parsed.message, Lit(" cannot be parsed as a public key: "))
             ELSE HasSeg(parsed.message, Lit(" cannot be parsed as a root"))

\* "0x1" handed to BlockId::from_str: digits after the prefix, a root error.
C6_Witness ==
    /\ family = "BlockId"
    /\ input = <<"0", "x", "1">>
    /\ ~parsed.ok
    /\ HasSeg(parsed.message, Lit(" cannot be parsed as a root"))

\* C7 as stated: a digit string without "0x" that denotes a u64 n parses to
\* Slot / Index n, and every other token that is no tag and has no "0x"
\* prefix is a parse error.
C7_Original ==
    Parsed =>
        /\ DenotesU64(input) =>
              /\ parsed.ok
              /\ parsed.value.variant = (IF family = "ValidatorId" THEN "Index" ELSE "Slot")
              /\ (IF family = "ValidatorId" THEN parsed.value.index ELSE parsed.value.slot)
                    = DecValue(input)
        /\ (/\ ~StartsWith0x(input)
            /\ ~(family \in {"BlockId", "StateId"} /\ IsTag(input))
            /\ ~DenotesU64(input)) => ~parsed.ok

\* C8: for BlockId and StateId, a symbolic variant is parsed from its
\* lowercase tag and from no other token, renders to that tag, and the
\* rendered text parses back to the same variant.
C8_SymbolicRoundTrip ==
    /\ [](/\ family \in {"BlockId", "StateId"}
          /\ parsed.ok
          /\ parsed.value.variant \in Symbolic
          => /\ input = TagText(parsed.value.variant)
             /\ rendered # <<>> => rendered = TagText(parsed.value.variant))
    /\ [][(/\ family \in {"BlockId", "StateId"}
           /\ parsed.ok
           /\ parsed.value.variant \in Symbolic
           /\ rendered # <<>>) => parsed' = parsed]_vars

\* Finalized parsed, rendered, and parsed again from the rendered text.
C8_Witness ==
    /\ family = "StateId"
    /\ origin = "rendered"
    /\ input = finalized
    /\ parsed = Ok(StateId("Finalized"))

\* C9 as stated: every parse error names the token and the expected
\* category: a "0x" token the token, the root / public key phrase and the
\* decode error; any other token the token and the parameter / slot phrase.
C9_Original ==
    (Parsed /\ ~parsed.ok) =>
        /\ HasSeg(parsed.message, Text(input))
        /\ IF StartsWith0x(input)
           THEN /\ HasError(parsed.message)
                /\ IF family = "ValidatorId"
                   THEN HasSeg(parsed.message, Lit(" cannot be parsed as a public key: "))
                   ELSE HasSeg(parsed.message, Lit(" cannot be parsed as a root"))
           ELSE CASE family = "BlockId" ->
                       HasSeg(parsed.message, Lit(" cannot be parsed as a parameter"))
                  [] family = "StateId" ->
                       HasSeg(parsed.message, Lit(" cannot be parsed as a slot"))
                  [] family = "ValidatorId" ->
                       HasSeg(parsed.message, Lit(" cannot be parsed as a slot: "))


=============================================================================
